---- MODULE Spec2Model ----
(***************************************************************************)
(* Model of create-project-repos (src/src/main.rs): the provisioning loop  *)
(* create_repos and the functions it calls, run against a GitLab platform  *)
(* whose answers are nondeterministic.                                      *)
(*                                                                         *)
(* Strings are sequences of one-character strings.  Every request sent to  *)
(* the platform and every line printed is appended to the history `log`.   *)
(***************************************************************************)
EXTENDS Integers, Sequences, FiniteSets, TLC

\* ------------------------------------------------------------------------
\* Bounds of the model
\* ------------------------------------------------------------------------
MaxRows == 2

MaxStudents == 3

\* longest roster or token file read by the file readers
MaxInput == 4

\* ------------------------------------------------------------------------
\* Program constants and inputs
\* ------------------------------------------------------------------------
\* sleep(Duration::new(10, 0))
SettleSeconds == 10

\* config.group_name and config.designation (command-line arguments)
group_name == <<"n", "s">>

designation == <<"a", "1">>

\* the student identities that rosters are built from, and the platform's
\* user id of each identity that is registered
Identities == {<<"a">>, <<"b">>}

UserIdOf(student) == IF student = <<"a">> THEN 1 ELSE 2

Entries == UNION {[1..n -> Identities] : n \in 0..MaxStudents}

RECURSIVE TotalStudents(_)
TotalStudents(roster) ==
  IF roster = <<>> THEN 0 ELSE Len(Head(roster)) + TotalStudents(Tail(roster))

\* the rosters of at most MaxRows rows that name at most MaxStudents students
Rosters ==
  {roster \in UNION {[1..n -> Entries] : n \in 0..MaxRows} :
     TotalStudents(roster) <= MaxStudents}

\* the platform's user directory: the answer to a users?username= query is
\* the list of matching users (empty when the identity is not registered)
Directories ==
  {[s \in Identities |-> IF s \in R THEN <<UserIdOf(s)>> ELSE <<>>] :
     R \in SUBSET Identities}

VARIABLES
  repo_members,     \* the parsed roster handed to create_repos
  directory,        \* the platform's user directory
  pc,               \* position in create_repos and its callees
  i,                \* loop index of create_repos (0-based)
  j,                \* number of identities already looked up for row i
  id_vector,        \* convert_to_user_ids: identifiers collected so far
  gitlab_user_ids,  \* create_repos: the resolved identifiers of row i
  project_name,     \* create_repos: the name formatted for row i
  project_id,       \* create_repos: the value create_project returned
  next_project_id,  \* platform: identifier the next created project gets
  k,                \* add_users_to_project: identifiers already handled
  added_students,   \* add_users_to_project: the counter it prints
  unprotect_ok,     \* outcome of the unprotect request of row i
  protect_ok,       \* outcome of the protect request of row i
  add_results,      \* outcomes of the add-member requests of row i
  log,              \* history of requests sent and lines printed
  current_user,     \* create_repos: the username find_current_user returned
  project_group_id, \* create_repos: the id find_group_by_name returned
  projects,         \* platform: the projects that exist, as [name, id]
  run,              \* number of the invocation of the program (1 or 2)
  file_content,     \* the characters of the file being read
  rest,             \* parse_csv_file: what the line iterator has not read yet
  result,           \* parse_csv_file: the rows parsed so far
  token,            \* read_token_file: the characters retained so far
  io_pc             \* position in parse_csv_file or read_token_file

vars == <<repo_members, directory, pc, i, j, id_vector, gitlab_user_ids,
          project_name, project_id, next_project_id, k, added_students,
          unprotect_ok, protect_ok, add_results, log, current_user,
          project_group_id, projects, run, file_content, rest, result, token,
          io_pc>>

\* the variables of the file readers, which create_repos does not touch
file_vars == <<file_content, rest, result, token, io_pc>>

\* what the loop of create_repos reads but never writes
loop_fixed == <<current_user, project_group_id, run>>

\* ------------------------------------------------------------------------
\* Formatting
\* ------------------------------------------------------------------------
DigitChar(d) == <<"0", "1", "2", "3", "4", "5", "6", "7", "8", "9">>[d + 1]

RECURSIVE ToDecimal(_)
\* Display of an unsigned integer, as format!("{}", n) prints it
ToDecimal(n) ==
  IF n < 10 THEN <<DigitChar(n)>>
  ELSE ToDecimal(n \div 10) \o <<DigitChar(n % 10)>>

\* variant: every row is named by its index
ProjectNameAlwaysIndexed(idx, group_or_student) ==
  group_name \o <<"-">> \o designation \o <<"-", "g">> \o ToDecimal(idx + 1)

\* variant: the group number is the 0-based loop index
ProjectNameZeroBased(idx, group_or_student) ==
  IF Len(group_or_student) = 1
  THEN group_name \o <<"-">> \o designation \o <<"-">> \o group_or_student[1]
  ELSE group_name \o <<"-">> \o designation \o <<"-", "g">> \o ToDecimal(idx)

\* let project_name = if group_or_student.len() == 1 {...} else {...}
ProjectName(idx, group_or_student) ==
  IF Len(group_or_student) = 1
  THEN group_name \o <<"-">> \o designation \o <<"-">> \o group_or_student[1]
  ELSE group_name \o <<"-">> \o designation \o <<"-", "g">> \o ToDecimal(idx + 1)

\* ------------------------------------------------------------------------
\* History
\* ------------------------------------------------------------------------
\* entry is the 1-based row the event belongs to (0 before the loop)
Event(op, entry, project, user, name, count) ==
  [op |-> op, entry |-> entry, project |-> project, user |-> user,
   name |-> name, count |-> count]

\* ------------------------------------------------------------------------
\* Initial state: create_repos is entered with a parsed roster
\* ------------------------------------------------------------------------
Init ==
  /\ repo_members \in Rosters
  /\ directory \in Directories
  /\ pc = "find_current_user"
  /\ i = 0
  /\ j = 0
  /\ id_vector = <<>>
  /\ gitlab_user_ids = <<>>
  /\ project_name = <<>>
  /\ project_id = 0
  /\ next_project_id = 1
  /\ k = 0
  /\ added_students = 0
  /\ unprotect_ok = TRUE
  /\ protect_ok = TRUE
  /\ add_results = <<>>
  /\ log = <<>>
  /\ current_user = <<>>
  /\ project_group_id = 0
  /\ projects = {}
  /\ run = 1
  /\ file_content = <<>>
  /\ rest = <<>>
  /\ result = <<>>
  /\ token = <<>>
  /\ io_pc = "idle"

\* ------------------------------------------------------------------------
\* Namespace lookups before the loop
\* ------------------------------------------------------------------------
\* the answers of the platform to the two lookups
CallerName == <<"u">>

NamespaceId == 7

\* variant: the error of a lookup is ignored and a default value used
UnwrapIgnoringError(ok, next, panic) == next

\* Result::unwrap(): go on with the Ok value, panic on Err
Unwrap(ok, next, panic) == IF ok THEN next ELSE panic

\* find_current_user: current_user_builder.query(client).unwrap()
FindCurrentUser ==
  /\ pc = "find_current_user"
  /\ \E ok \in BOOLEAN :
       /\ pc' = Unwrap(ok, "find_group_by_name", "panic_find_current_user")
       /\ current_user' = IF ok THEN CallerName ELSE <<>>
       /\ log' = Append(log, Event("current_user", 0, 0, 0, <<>>, 0))
  /\ UNCHANGED <<repo_members, directory, i, j, id_vector, gitlab_user_ids,
                 project_name, project_id, next_project_id, k, added_students,
                 unprotect_ok, protect_ok, add_results>>
  /\ UNCHANGED <<project_group_id, projects, run, file_vars>>

\* find_group_by_name: group_builder.query(client).unwrap()
FindGroupByName ==
  /\ pc = "find_group_by_name"
  /\ \E ok \in BOOLEAN :
       /\ pc' = Unwrap(ok, "for_next", "panic_find_group_by_name")
       /\ project_group_id' = IF ok THEN NamespaceId ELSE 0
       /\ log' = Append(log, Event("group", 0, 0, 0, group_name, 0))
  /\ UNCHANGED <<repo_members, directory, i, j, id_vector, gitlab_user_ids,
                 project_name, project_id, next_project_id, k, added_students,
                 unprotect_ok, protect_ok, add_results>>
  /\ UNCHANGED <<current_user, projects, run, file_vars>>

\* ------------------------------------------------------------------------
\* The loop of create_repos
\* ------------------------------------------------------------------------
\* for i in 0..repo_members.len(): take the next row and format its name,
\* or leave the loop and return.  The locals of the loop body are fresh in
\* every iteration.
ForNext ==
  /\ pc = "for_next"
  /\ IF i < Len(repo_members)
     THEN /\ project_name' = ProjectName(i, repo_members[i + 1])
          /\ pc' = "convert_to_user_ids"
     ELSE /\ project_name' = <<>>
          /\ pc' = "returned"
  /\ j' = 0
  /\ id_vector' = <<>>
  /\ gitlab_user_ids' = <<>>
  /\ project_id' = 0
  /\ k' = 0
  /\ added_students' = 0
  /\ unprotect_ok' = TRUE
  /\ protect_ok' = TRUE
  /\ add_results' = <<>>
  /\ UNCHANGED <<repo_members, directory, i, next_project_id, log>>
  /\ UNCHANGED <<loop_fixed, projects, file_vars>>

\* retrieve_user_id: None for an empty answer, else the first user's id
RetrieveUserId(gl_user) ==
  IF gl_user = <<>> THEN <<>> ELSE <<gl_user[1]>>

\* what retrieve_user_id does with the result of the users query
\* (gl_user_builder.query(client).unwrap())
LookupContinues(ok) == ok

\* convert_to_user_ids, one iteration: look one student up and push the id
LookupStudent ==
  /\ pc = "convert_to_user_ids"
  /\ j < Len(repo_members[i + 1])
  /\ LET student == repo_members[i + 1][j + 1] IN
       /\ log' = Append(log, Event("lookup", i + 1, 0, 0, student, 0))
       /\ \E ok \in BOOLEAN :
            IF LookupContinues(ok)
            THEN /\ id_vector' = id_vector \o
                       (IF ok THEN RetrieveUserId(directory[student]) ELSE <<>>)
                 /\ j' = j + 1
                 /\ pc' = pc
            ELSE /\ pc' = "panic_retrieve_user_id"
                 /\ UNCHANGED <<id_vector, j>>
  /\ UNCHANGED <<repo_members, directory, i, gitlab_user_ids, project_name,
                 project_id, next_project_id, k, added_students, unprotect_ok,
                 protect_ok, add_results>>
  /\ UNCHANGED <<loop_fixed, projects, file_vars>>

\* variant: a row with an unresolved identity is skipped
SkipsEntryOnAnyMiss(ids) == Len(ids) < Len(repo_members[i + 1])

\* variant: the emptiness test is missing
SkipsEntryNever(ids) == FALSE

\* if gitlab_user_ids.is_empty() { println!(...); continue; }
SkipsEntry(ids) == ids = <<>>

\* convert_to_user_ids returns id_vector; create_repos tests it
CheckUserIds ==
  /\ pc = "convert_to_user_ids"
  /\ j = Len(repo_members[i + 1])
  /\ gitlab_user_ids' = id_vector
  /\ IF SkipsEntry(id_vector)
     THEN /\ log' = Append(log, Event("no_users", i + 1, 0, 0, project_name, 0))
          /\ i' = i + 1
          /\ pc' = "for_next"
     ELSE /\ log' = log
          /\ i' = i
          /\ pc' = "create_project"
  /\ UNCHANGED <<repo_members, directory, j, id_vector, project_name,
                 project_id, next_project_id, k, added_students, unprotect_ok,
                 protect_ok, add_results>>
  /\ UNCHANGED <<loop_fixed, projects, file_vars>>

\* variant: a failed creation leaves the loop
AfterCreateAborts(id) == IF id = 0 THEN "returned" ELSE "sleep"

\* variant: the settling delay is missing
AfterCreateNoDelay(id) == IF id = 0 THEN "for_next" ELSE "unprotect"

\* variant: the sentinel 0 is not tested
AfterCreateIgnoresFailure(id) == "sleep"

\* variant: a failed creation is tried again
AfterCreateRetries(id) == IF id = 0 THEN "create_project" ELSE "sleep"

\* where create_repos goes after match project_id { 0 => continue, _ => ... }
AfterCreate(id) == IF id = 0 THEN "for_next" ELSE "sleep"

\* the platform holds a project of that name
NameTaken(name) == \E p \in projects : p.name = name

\* the answers the platform can give to a creation request: it rejects a
\* name that is taken, and may reject any request (quota, import source)
CreateAnswers(name) == IF NameTaken(name) THEN {FALSE} ELSE BOOLEAN

\* create_project and the match on its result
CreateProject ==
  /\ pc = "create_project"
  /\ \E ok \in CreateAnswers(project_name) :
       LET id == IF ok THEN next_project_id ELSE 0 IN
         /\ project_id' = id
         /\ projects' = IF ok THEN projects \cup {[name |-> project_name, id |-> id]}
                         ELSE projects
         /\ next_project_id' = IF ok THEN next_project_id + 1 ELSE next_project_id
         /\ log' = log \o
              << Event("create", i + 1, 0, 0, project_name, 0),
                 IF id = 0
                 THEN Event("create_failed", i + 1, 0, 0, project_name, 0)
                 ELSE Event("created", i + 1, id, 0, project_name, 0) >>
         /\ pc' = AfterCreate(id)
         /\ i' = IF AfterCreate(id) = "for_next" THEN i + 1 ELSE i
  /\ UNCHANGED <<repo_members, directory, j, id_vector, gitlab_user_ids,
                 project_name, k, added_students, unprotect_ok, protect_ok,
                 add_results>>
  /\ UNCHANGED <<loop_fixed, file_vars>>

\* sleep(Duration::new(10, 0))
Sleep ==
  /\ pc = "sleep"
  /\ log' = Append(log, Event("sleep", i + 1, project_id, 0, <<>>, SettleSeconds))
  /\ pc' = "unprotect"
  /\ UNCHANGED <<repo_members, directory, i, j, id_vector, gitlab_user_ids,
                 project_name, project_id, next_project_id, k, added_students,
                 unprotect_ok, protect_ok, add_results>>
  /\ UNCHANGED <<loop_fixed, projects, file_vars>>

\* variant: the unprotect request is not sent
UnprotectOmitted ==
  /\ pc = "unprotect"
  /\ pc' = "protect"
  /\ UNCHANGED <<repo_members, directory, i, j, id_vector, gitlab_user_ids,
                 project_name, project_id, next_project_id, k, added_students,
                 unprotect_ok, protect_ok, add_results, log>>
  /\ UNCHANGED <<loop_fixed, projects, file_vars>>

\* configure_branch_protection: unprotect_branch_builder.query(client).unwrap_or(())
Unprotect ==
  /\ pc = "unprotect"
  /\ \E ok \in BOOLEAN : unprotect_ok' = ok
  /\ log' = Append(log, Event("unprotect", i + 1, project_id, 0, <<>>, 0))
  /\ pc' = "protect"
  /\ UNCHANGED <<repo_members, directory, i, j, id_vector, gitlab_user_ids,
                 project_name, project_id, next_project_id, k, added_students,
                 protect_ok, add_results>>
  /\ UNCHANGED <<loop_fixed, projects, file_vars>>

\* variant: the result of the protect request is unwrapped
ProtectPanicsOnError(ok) == ok

\* what configure_branch_protection does with the result of the protect
\* request: protect_branch_builder.query(client).unwrap_or(())
ProtectContinues(ok) == TRUE

\* configure_branch_protection: the protect request and the closing println
Protect ==
  /\ pc = "protect"
  /\ \E ok \in BOOLEAN :
       /\ protect_ok' = ok
       /\ IF ProtectContinues(ok)
          THEN /\ log' = log \o
                    << Event("protect", i + 1, project_id, 0, <<>>, 0),
                       Event("protections_applied", i + 1, project_id, 0,
                             project_name, 0) >>
               /\ pc' = "add_users"
          ELSE /\ log' = Append(log, Event("protect", i + 1, project_id, 0, <<>>, 0))
               /\ pc' = "panic_protect"
  /\ k' = 0
  /\ added_students' = 0
  /\ UNCHANGED <<repo_members, directory, i, j, id_vector, gitlab_user_ids,
                 project_name, project_id, next_project_id, unprotect_ok,
                 add_results>>
  /\ UNCHANGED <<loop_fixed, projects, file_vars>>

\* variant: the loop ends at the first failed request
NextMemberStopsOnError(idx, ids, ok) == IF ok THEN idx + 1 ELSE Len(ids)

\* add_users_to_project: index of the next identifier the loop handles after
\* member_builder.query(client).unwrap_or(()) answered for identifier idx
NextMember(idx, ids, ok) == idx + 1

\* added_students += 1
CountAfterAdd(count, ok) == count + 1

\* add_users_to_project, one iteration of the loop
AddMember ==
  /\ pc = "add_users"
  /\ k < Len(gitlab_user_ids)
  /\ \E ok \in BOOLEAN :
       /\ add_results' = Append(add_results, ok)
       /\ k' = NextMember(k, gitlab_user_ids, ok)
       /\ added_students' = CountAfterAdd(added_students, ok)
  /\ log' = Append(log, Event("add", i + 1, project_id, gitlab_user_ids[k + 1],
                              <<>>, 0))
  /\ UNCHANGED <<repo_members, directory, pc, i, j, id_vector, gitlab_user_ids,
                 project_name, project_id, next_project_id, unprotect_ok,
                 protect_ok>>
  /\ UNCHANGED <<loop_fixed, projects, file_vars>>

\* add_users_to_project: println!("Added {added_students} student(s) ...")
AddReport ==
  /\ pc = "add_users"
  /\ k >= Len(gitlab_user_ids)
  /\ log' = Append(log, Event("added_report", i + 1, project_id, 0,
                              project_name, added_students))
  /\ pc' = "complete"
  /\ UNCHANGED <<repo_members, directory, i, j, id_vector, gitlab_user_ids,
                 project_name, project_id, next_project_id, k, added_students,
                 unprotect_ok, protect_ok, add_results>>
  /\ UNCHANGED <<loop_fixed, projects, file_vars>>

\* println!("Setup of repo {project_name} is complete."), end of the loop body
Complete ==
  /\ pc = "complete"
  /\ log' = Append(log, Event("complete", i + 1, project_id, 0, project_name, 0))
  /\ i' = i + 1
  /\ pc' = "for_next"
  /\ UNCHANGED <<repo_members, directory, j, id_vector, gitlab_user_ids,
                 project_name, project_id, next_project_id, k, added_students,
                 unprotect_ok, protect_ok, add_results>>
  /\ UNCHANGED <<loop_fixed, projects, file_vars>>

Next ==
  \/ FindCurrentUser
  \/ FindGroupByName
  \/ ForNext
  \/ LookupStudent
  \/ CheckUserIds
  \/ CreateProject
  \/ Sleep
  \/ Unprotect
  \/ Protect
  \/ AddMember
  \/ AddReport
  \/ Complete

Spec == Init /\ [][Next]_vars

\* the program is single-threaded and every step it can take is taken
FairSpec == Spec /\ WF_vars(Next)

\* ------------------------------------------------------------------------
\* A second invocation with the same roster
\* ------------------------------------------------------------------------
Ended ==
  pc \in {"returned", "panic_find_current_user", "panic_find_group_by_name",
          "panic_retrieve_user_id"}

\* main is started again with the same arguments once the first process has
\* ended: the process starts from scratch, the platform keeps its projects
Rerun ==
  /\ Ended
  /\ run = 1
  /\ run' = 2
  /\ pc' = "find_current_user"
  /\ i' = 0
  /\ j' = 0
  /\ id_vector' = <<>>
  /\ gitlab_user_ids' = <<>>
  /\ project_name' = <<>>
  /\ project_id' = 0
  /\ k' = 0
  /\ added_students' = 0
  /\ unprotect_ok' = TRUE
  /\ protect_ok' = TRUE
  /\ add_results' = <<>>
  /\ log' = <<>>
  /\ current_user' = <<>>
  /\ project_group_id' = 0
  /\ UNCHANGED <<repo_members, directory, next_project_id, projects, file_vars>>

RerunNext ==
  \/ Next
  \/ Rerun

RerunSpec == Init /\ [][RerunNext]_vars

\* ------------------------------------------------------------------------
\* The file readers: parse_csv_file with read_lines, and read_token_file
\* ------------------------------------------------------------------------
Chars == {"a", ",", " ", "\n", "\r"}

Inputs == UNION {[1..n -> Chars] : n \in 0..MaxInput}

\* char::is_whitespace, on the characters of the model
IsWhitespace(c) == c \in {" ", "\n", "\r", "\t"}

\* position of the first c in str, 0 when there is none
IndexOf(str, c) ==
  IF \E n \in 1..Len(str) : str[n] = c
  THEN CHOOSE n \in 1..Len(str) :
         str[n] = c /\ \A m \in 1..(n - 1) : str[m] # c
  ELSE 0

\* variant: the line keeps its terminator, as read_line returns it
NextLineKeepsTerminator(unread) ==
  IF IndexOf(unread, "\n") = 0 THEN unread
  ELSE SubSeq(unread, 1, IndexOf(unread, "\n"))

\* BufRead::lines(), the item: the characters up to the next newline or the
\* end of the file, without the newline and without a carriage return
\* before the newline
NextLine(unread) ==
  LET n == IndexOf(unread, "\n") IN
    IF n = 0 THEN unread
    ELSE LET line == SubSeq(unread, 1, n - 1) IN
           IF line # <<>> /\ line[Len(line)] = "\r"
           THEN SubSeq(line, 1, Len(line) - 1)
           ELSE line

\* BufRead::lines(), what is left to read after the item
AfterLine(unread) ==
  LET n == IndexOf(unread, "\n") IN
    IF n = 0 THEN <<>> ELSE SubSeq(unread, n + 1, Len(unread))

RECURSIVE Split(_)
\* line.split(','): the pieces between the separators, empty ones included
Split(line) ==
  LET n == IndexOf(line, ",") IN
    IF n = 0 THEN <<line>>
    ELSE <<SubSeq(line, 1, n - 1)>> \o Split(SubSeq(line, n + 1, Len(line)))

RECURSIVE TrimStart(_)
TrimStart(str) ==
  IF str # <<>> /\ IsWhitespace(Head(str)) THEN TrimStart(Tail(str)) ELSE str

RECURSIVE TrimEnd(_)
TrimEnd(str) ==
  IF str # <<>> /\ IsWhitespace(str[Len(str)])
  THEN TrimEnd(SubSeq(str, 1, Len(str) - 1))
  ELSE str

\* str::trim
Trim(str) == TrimEnd(TrimStart(str))

RECURSIVE PushFields(_)
\* for user in line.split(',') { if !user.is_empty() { inner.push(user.trim()) } }
PushFields(fields) ==
  IF fields = <<>> THEN <<>>
  ELSE (IF Head(fields) # <<>> THEN <<Trim(Head(fields))>> ELSE <<>>)
         \o PushFields(Tail(fields))

\* the body of the loop of parse_csv_file: the row made from one line
ParseRow(line) == PushFields(Split(line))

RECURSIVE ParseRows(_)
\* the loop of parse_csv_file over the lines left to read
ParseRows(unread) ==
  IF unread = <<>> THEN <<>>
  ELSE <<ParseRow(NextLine(unread))>> \o ParseRows(AfterLine(unread))

\* parse_csv_file applied to a file of the given content
ParseCsvFile(content) == ParseRows(content)

\* the state in which no invocation of create_repos is under way
RunIdle ==
  /\ repo_members = <<>>
  /\ directory \in {[s \in Identities |-> <<>>]}
  /\ pc = "not_started"
  /\ i = 0
  /\ j = 0
  /\ id_vector = <<>>
  /\ gitlab_user_ids = <<>>
  /\ project_name = <<>>
  /\ project_id = 0
  /\ next_project_id = 1
  /\ k = 0
  /\ added_students = 0
  /\ unprotect_ok = TRUE
  /\ protect_ok = TRUE
  /\ add_results = <<>>
  /\ log = <<>>
  /\ current_user = <<>>
  /\ project_group_id = 0
  /\ projects = {}
  /\ run = 1

run_vars == <<repo_members, directory, pc, i, j, id_vector, gitlab_user_ids,
              project_name, project_id, next_project_id, k, added_students,
              unprotect_ok, protect_ok, add_results, log, current_user,
              project_group_id, projects, run>>

\* parse_csv_file is entered: read_lines has opened the roster file
ParseInit ==
  /\ RunIdle
  /\ file_content \in Inputs
  /\ rest = file_content
  /\ result = <<>>
  /\ token = <<>>
  /\ io_pc = "parse_lines"

\* parse_csv_file, one iteration of for line in lines
ParseLine ==
  /\ io_pc = "parse_lines"
  /\ rest # <<>>
  /\ result' = Append(result, ParseRow(NextLine(rest)))
  /\ rest' = AfterLine(rest)
  /\ UNCHANGED <<file_content, token, io_pc, run_vars>>

\* parse_csv_file: the iterator is exhausted and result is returned
ParseReturn ==
  /\ io_pc = "parse_lines"
  /\ rest = <<>>
  /\ io_pc' = "parsed"
  /\ UNCHANGED <<file_content, rest, result, token, run_vars>>

ParseNext ==
  \/ ParseLine
  \/ ParseReturn

ParseSpec == ParseInit /\ [][ParseNext]_vars

\* variant: only newlines are removed
RetainedExceptNewline(c) == c # "\n"

\* token.retain(|c| !c.is_whitespace()): the test on one character
Retained(c) == ~IsWhitespace(c)

\* read_token_file is entered: read_to_string has read the token file
TokenInit ==
  /\ RunIdle
  /\ file_content \in Inputs
  /\ rest = file_content
  /\ result = <<>>
  /\ token = <<>>
  /\ io_pc = "retain"

\* String::retain, one character
RetainChar ==
  /\ io_pc = "retain"
  /\ rest # <<>>
  /\ token' = IF Retained(Head(rest)) THEN Append(token, Head(rest)) ELSE token
  /\ rest' = Tail(rest)
  /\ UNCHANGED <<file_content, result, io_pc, run_vars>>

\* read_token_file returns token
TokenReturn ==
  /\ io_pc = "retain"
  /\ rest = <<>>
  /\ io_pc' = "token_read"
  /\ UNCHANGED <<file_content, rest, result, token, run_vars>>

TokenNext ==
  \/ RetainChar
  \/ TokenReturn

TokenSpec == TokenInit /\ [][TokenNext]_vars

\* ------------------------------------------------------------------------
\* Vocabulary of the properties
\* ------------------------------------------------------------------------
Rows == 1..Len(repo_members)

LogIdx == 1..Len(log)

\* positions of the events op of row r in the history
At(op, r) == {n \in LogIdx : log[n].op = op /\ log[n].entry = r}

Happened(op, r) == At(op, r) # {}

LastIs(op, r) ==
  /\ log # <<>>
  /\ log[Len(log)].op = op
  /\ log[Len(log)].entry = r

RECURSIVE Registered(_)
\* the identifiers the directory holds for a sequence of identities, in order
Registered(students) ==
  IF students = <<>> THEN <<>>
  ELSE directory[Head(students)] \o Registered(Tail(students))

\* the resolved-identifier set of row r
ResolvedIds(r) == Registered(repo_members[r])

RECURSIVE UsersOf(_)
UsersOf(events) ==
  IF events = <<>> THEN <<>>
  ELSE <<Head(events).user>> \o UsersOf(Tail(events))

RECURSIVE NamesOf(_)
NamesOf(events) ==
  IF events = <<>> THEN <<>>
  ELSE <<Head(events).name>> \o NamesOf(Tail(events))

AddEvent(r, e) == e.op = "add" /\ e.entry = r

LookupEvent(r, e) == e.op = "lookup" /\ e.entry = r

\* the users of the add-member requests sent for row r, in order
AddedUsers(r) == UsersOf(SelectSeq(log, LAMBDA e : AddEvent(r, e)))

\* the identities looked up for row r, in order
LookedUp(r) == NamesOf(SelectSeq(log, LAMBDA e : LookupEvent(r, e)))

IsPrefix(s, t) == Len(s) <= Len(t) /\ s = SubSeq(t, 1, Len(s))

\* row r has been dealt with: the loop is past it
Passed(r) == i >= r

\* the loop has left row r behind and is at, or on its way into, row r + 1,
\* or has returned when r was the last row
MovedOn(r) ==
  /\ i = r
  /\ \/ pc = "for_next"
     \/ pc = "convert_to_user_ids" /\ r < Len(repo_members)
     \/ pc = "returned" /\ r = Len(repo_members)

Panicked ==
  pc \in {"panic_find_current_user", "panic_find_group_by_name",
          "panic_retrieve_user_id", "panic_protect"}

\* ------------------------------------------------------------------------
\* C1: a row whose resolved-identifier set is empty (no identity is
\* registered, or the row has no identities) gets no project-creation
\* request and no add-member request; its skip is printed and the loop
\* goes on with the next row (or returns when the row was the last).
\* ------------------------------------------------------------------------
C1_EmptySetSkipsEntry ==
  \A r \in Rows :
    ResolvedIds(r) = <<>> =>
      /\ ~Happened("create", r)
      /\ ~Happened("add", r)
      /\ Passed(r) => Happened("no_users", r)
      /\ LastIs("no_users", r) => MovedOn(r)

\* a row with identities, none registered, was skipped and the next row's
\* first identity has been looked up
C1_Witness ==
  \E r \in Rows :
    /\ repo_members[r] # <<>>
    /\ ResolvedIds(r) = <<>>
    /\ Happened("no_users", r)
    /\ Happened("lookup", r + 1)

\* ------------------------------------------------------------------------
\* C2: for a created project at most one unprotect request is ever sent;
\* every protect request for a project comes after the one unprotect
\* request for the same project, whatever that request answered; a row
\* that completes has had exactly one of each.
\* ------------------------------------------------------------------------
ProjectAt(op, p) == {n \in LogIdx : log[n].op = op /\ log[n].project = p}

C2_UnprotectBeforeProtect ==
  \A n \in LogIdx :
    LET p == log[n].project IN
      /\ log[n].op = "created" => Cardinality(ProjectAt("unprotect", p)) <= 1
      /\ log[n].op = "protect" =>
            /\ Cardinality(ProjectAt("unprotect", p)) = 1
            /\ \A m \in ProjectAt("unprotect", p) : m < n
      /\ log[n].op = "complete" =>
            /\ Cardinality(ProjectAt("unprotect", p)) = 1
            /\ Cardinality(ProjectAt("protect", p)) = 1

\* the protect request was sent after an unprotect request that failed
C2_Witness ==
  /\ ~unprotect_ok
  /\ Happened("protect", i + 1)
  /\ Happened("unprotect", i + 1)

\* ------------------------------------------------------------------------
\* C3: the add-member requests of a row are sent for the resolved
\* identifiers of the row, in order, one each; when add_users_to_project
\* prints its report every resolved identifier has had its request, whatever
\* the earlier requests answered.
\* ------------------------------------------------------------------------
C3_AddAttemptedForEveryId ==
  \A r \in Rows :
    /\ IsPrefix(AddedUsers(r), ResolvedIds(r))
    /\ Happened("added_report", r) => AddedUsers(r) = ResolvedIds(r)
    /\ (pc = "add_users" /\ i + 1 = r) => Len(add_results) = Len(AddedUsers(r))

\* the first request of a team of two failed and the second was still sent
C3_Witness ==
  /\ Len(add_results) = 2
  /\ ~add_results[1]
  /\ Happened("added_report", i + 1)
  /\ Len(AddedUsers(i + 1)) = 2

\* ------------------------------------------------------------------------
\* C4: a rejected project creation does not end the batch: after it the
\* loop is at the next row (or returns when the row was the last), and a run that returns has looked
\* up every identity of every row and has requested creation for every row
\* with a resolved identifier, however many creations failed.
\* ------------------------------------------------------------------------
C4_CreateFailureContinues ==
  /\ \A r \in Rows :
        LastIs("create_failed", r) => MovedOn(r)
  /\ pc = "returned" =>
        \A r \in Rows :
          /\ LookedUp(r) = repo_members[r]
          /\ ResolvedIds(r) # <<>> => Cardinality(At("create", r)) = 1

\* the run returned after a creation failed and a later row got its
\* creation request
C4_Witness ==
  /\ pc = "returned"
  /\ \E r \in Rows :
        /\ Happened("create_failed", r)
        /\ Happened("create", r + 1)

\* ------------------------------------------------------------------------
\* C5: once the creation of a row's project has succeeded, the row reaches
\* the "Setup of repo ... is complete" line, whatever the unprotect, protect
\* and add-member requests answer; and a row that has reached that line has
\* passed through policy application and membership granting, in that order.
\* ------------------------------------------------------------------------
PassedThroughPolicyAndMembers ==
  \A c \in LogIdx :
    log[c].op = "complete" =>
      \E a, b \in LogIdx :
        /\ a < b /\ b < c
        /\ log[a].op = "protections_applied" /\ log[a].entry = log[c].entry
        /\ log[b].op = "added_report" /\ log[b].entry = log[c].entry

C5_CreatedReachesDone ==
  /\ []PassedThroughPolicyAndMembers
  /\ \A r \in 1..MaxRows : Happened("created", r) ~> Happened("complete", r)

\* a row is complete although its unprotect, protect and an add-member
\* request all failed
C5_Witness ==
  /\ LastIs("complete", i)
  /\ ~unprotect_ok
  /\ ~protect_ok
  /\ \E n \in 1..Len(add_results) : ~add_results[n]

\* ------------------------------------------------------------------------
\* C6: for every created project the steps come in the order creation,
\* settling delay, unprotect, protect, add-member requests: an unprotect or
\* protect request comes after the delay that follows the project's
\* creation, the protect request after the unprotect request, and every
\* add-member request after the protect request.
\* ------------------------------------------------------------------------
Earlier(op, n) ==
  \E m \in LogIdx :
    /\ m < n
    /\ log[m].op = op
    /\ log[m].project = log[n].project
    /\ log[m].entry = log[n].entry

C6_FixedStepOrder ==
  \A n \in LogIdx :
    /\ log[n].op = "sleep" => Earlier("created", n) /\ log[n].count = SettleSeconds
    /\ log[n].op = "unprotect" => Earlier("sleep", n)
    /\ log[n].op = "protect" => Earlier("sleep", n) /\ Earlier("unprotect", n)
    /\ log[n].op = "add" => Earlier("protect", n)

\* an add-member request has been sent for a created project
C6_Witness ==
  \E n \in LogIdx : log[n].op = "add" /\ log[n].project > 0

\* ------------------------------------------------------------------------
\* C7: the creation request of a row with exactly one identity names the
\* project namespace-designation-identity, at any row position.
\* ------------------------------------------------------------------------
C7_SingleIdentityName ==
  \A n \in LogIdx :
    (log[n].op = "create" /\ Len(repo_members[log[n].entry]) = 1) =>
      log[n].name = group_name \o <<"-">> \o designation \o <<"-">>
                      \o repo_members[log[n].entry][1]

\* a creation request for a single-identity row that is not the first row
C7_Witness ==
  \E n \in LogIdx :
    /\ log[n].op = "create"
    /\ log[n].entry > 1
    /\ Len(repo_members[log[n].entry]) = 1

\* ------------------------------------------------------------------------
\* C8: the creation request of a row with more than one identity names the
\* project namespace-designation-g followed by the decimal digits of the
\* row's 1-based position in the roster, whatever happened to the rows
\* before it and however many of its identities resolved.
\* ------------------------------------------------------------------------
DigitValue(c) ==
  CHOOSE d \in 0..9 : <<"0", "1", "2", "3", "4", "5", "6", "7", "8", "9">>[d + 1] = c

IsDigits(str) ==
  /\ str # <<>>
  /\ \A n \in 1..Len(str) :
        str[n] \in {"0", "1", "2", "3", "4", "5", "6", "7", "8", "9"}
  /\ Len(str) > 1 => str[1] # "0"

RECURSIVE DecimalValue(_)
DecimalValue(str) ==
  IF str = <<>> THEN 0
  ELSE 10 * DecimalValue(SubSeq(str, 1, Len(str) - 1)) + DigitValue(str[Len(str)])

GroupPrefix == group_name \o <<"-">> \o designation \o <<"-", "g">>

C8_GroupNameUsesRowIndex ==
  \A n \in LogIdx :
    (log[n].op = "create" /\ Len(repo_members[log[n].entry]) > 1) =>
      LET name == log[n].name
          digits == SubSeq(name, Len(GroupPrefix) + 1, Len(name))
      IN /\ IsPrefix(GroupPrefix, name)
         /\ IsDigits(digits)
         /\ DecimalValue(digits) = log[n].entry

\* a creation request for a group in the second row or later, after a row
\* that got no project, with one of the group's identities unresolved
C8_Witness ==
  \E n \in LogIdx :
    LET r == log[n].entry IN
      /\ log[n].op = "create"
      /\ r > 1
      /\ Len(repo_members[r]) > 1
      /\ Len(ResolvedIds(r)) < Len(repo_members[r])
      /\ ~Happened("created", r - 1)

\* ------------------------------------------------------------------------
\* C9: identity resolution never fails the run: whatever a user-directory
\* lookup answers, the run does not end inside retrieve_user_id.
\* ------------------------------------------------------------------------
C9_ResolutionNeverFailsRun == pc # "panic_retrieve_user_id"

\* ------------------------------------------------------------------------
\* C10: the count add_users_to_project prints equals the number of
\* add-member requests of that project that succeeded.
\* ------------------------------------------------------------------------
Succeeded == Cardinality({n \in 1..Len(add_results) : add_results[n]})

C10_ReportedCountIsSucceeded ==
  (pc = "complete" /\ LastIs("added_report", i + 1)) =>
    log[Len(log)].count = Succeeded

\* ------------------------------------------------------------------------
\* C11: when the current-user lookup or the namespace lookup fails the run
\* ends there: no request and no printed line belongs to a roster row, and
\* whenever something has been done for a row both lookups had answered.
\* ------------------------------------------------------------------------
C11_FailedLookupAbortsRun ==
  /\ pc \in {"panic_find_current_user", "panic_find_group_by_name"} =>
        \A n \in LogIdx : log[n].entry = 0
  /\ (pc = "for_next" \/ \E n \in LogIdx : log[n].entry >= 1) =>
        /\ current_user = CallerName
        /\ project_group_id = NamespaceId

\* the namespace lookup failed in a run whose roster has a first row with
\* identities, and nothing was done for it
C11_Witness ==
  /\ pc = "panic_find_group_by_name"
  /\ repo_members # <<>>
  /\ repo_members[1] # <<>>
  /\ Len(log) = 2

\* ------------------------------------------------------------------------
\* C12: the rows are processed strictly in roster order: every request and
\* printed line of a row comes before every one of a later row, and a row
\* gets at most one project-creation request in a run, also when that
\* request fails.
\* ------------------------------------------------------------------------
C12_RosterOrderNoRetry ==
  /\ \A m, n \in LogIdx : m < n => log[m].entry <= log[n].entry
  /\ \A r \in Rows : Cardinality(At("create", r)) <= 1
  /\ \A n \in LogIdx : log[n].entry >= 1 => log[n].entry <= i + 1

\* the run returned; the creation of the first row failed, was not tried
\* again, and the second row was processed up to its creation request
C12_Witness ==
  /\ pc = "returned"
  /\ Happened("create_failed", 1)
  /\ Cardinality(At("create", 1)) = 1
  /\ Happened("create", 2)

\* ------------------------------------------------------------------------
\* C13: when the unprotect or the protect request of a created project
\* fails, a line recording the failure is printed for that row before the
\* "Protections applied" line, and the row goes on to membership granting.
\* ------------------------------------------------------------------------
C13_PolicyFailureIsLogged ==
  \A r \in Rows :
    (i + 1 = r /\ Happened("protections_applied", r)
       /\ (~unprotect_ok \/ ~protect_ok)) =>
      /\ Happened("policy_error", r)
      /\ pc \in {"add_users", "complete"}

\* ------------------------------------------------------------------------
\* C17: in a second invocation with the same roster, on a platform that
\* rejects a project name that is taken, a row whose project exists from
\* before has its creation request rejected and gets no settling delay and
\* no unprotect, protect or add-member request; no such request names a
\* project that existed before the invocation.
\* ------------------------------------------------------------------------
\* the projects the platform held when this invocation started
Preexisting ==
  {p \in projects :
     ~\E n \in LogIdx : log[n].op = "created" /\ log[n].project = p.id}

ExistedBefore(r) ==
  \E p \in Preexisting : p.name = ProjectName(r - 1, repo_members[r])

C17_RerunLeavesExistingProjects ==
  run = 2 =>
    /\ \A r \in Rows :
          ExistedBefore(r) =>
            /\ \A n \in At("create", r) :
                  n < Len(log) /\ log[n + 1].op = "create_failed"
            /\ \A op \in {"created", "sleep", "unprotect", "protect", "add",
                           "complete"} : ~Happened(op, r)
    /\ \A n \in LogIdx :
          log[n].op \in {"unprotect", "protect", "add"} =>
            \A p \in Preexisting : log[n].project # p.id

\* the second invocation returned after the creation request of a row
\* whose project the first invocation had created was rejected
C17_Witness ==
  /\ run = 2
  /\ pc = "returned"
  /\ \E r \in Rows : ExistedBefore(r) /\ Happened("create_failed", r)

\* ------------------------------------------------------------------------
\* C19: a row whose project creation failed gets no settling delay, no
\* unprotect, protect or add-member request and no "complete" line; the
\* loop goes on with the next row.
\* ------------------------------------------------------------------------
C19_CreateFailureEndsEntry ==
  \A r \in Rows :
    Happened("create_failed", r) =>
      /\ \A op \in {"sleep", "unprotect", "protect", "protections_applied",
                     "add", "added_report", "complete"} : ~Happened(op, r)
      /\ Passed(r)

\* the creation of the first row failed and the second row was set up
\* completely
C19_Witness ==
  /\ Happened("create_failed", 1)
  /\ Happened("complete", 2)

\* ------------------------------------------------------------------------
\* C20: a row is skipped for missing identities only when none of its
\* identities resolves; a row with a resolved identity gets a creation
\* request, and the add-member requests sent for it name the project created
\* for that row and the identifiers resolved for that row, one each, in
\* roster order.
\* ------------------------------------------------------------------------
CreatedId(r) == {log[n].project : n \in At("created", r)}

C20_MembersMatchEntry ==
  \A r \in Rows :
    /\ Happened("no_users", r) => ResolvedIds(r) = <<>>
    /\ (Passed(r) /\ ResolvedIds(r) # <<>>) => Happened("create", r)
    /\ \A n \in At("add", r) :
          /\ log[n].project \in CreatedId(r)
          /\ log[n].project # 0
    /\ IsPrefix(AddedUsers(r), ResolvedIds(r))
    /\ Happened("complete", r) => AddedUsers(r) = ResolvedIds(r)

\* two rows were set up completely, with different users and different
\* projects
C20_Witness ==
  /\ Len(repo_members) >= 2
  /\ Happened("complete", 1)
  /\ Happened("complete", 2)
  /\ ResolvedIds(1) # ResolvedIds(2)
  /\ CreatedId(1) # CreatedId(2)

\* ------------------------------------------------------------------------
\* Vocabulary of the properties of the file readers
\* ------------------------------------------------------------------------
NewlineAt == {n \in 1..Len(file_content) : file_content[n] = "\n"}

\* the lines of the file: one per newline, and one more for characters
\* after the last newline
LineCount ==
  Cardinality(NewlineAt) +
    (IF file_content # <<>> /\ file_content[Len(file_content)] # "\n"
     THEN 1 ELSE 0)

NthNewline(n) ==
  CHOOSE p \in NewlineAt : Cardinality({q \in NewlineAt : q <= p}) = n

LineStart(n) == IF n = 1 THEN 1 ELSE NthNewline(n - 1) + 1

LineEnd(n) ==
  IF n <= Cardinality(NewlineAt) THEN NthNewline(n) - 1 ELSE Len(file_content)

\* line n holds separators and whitespace only
HasNoIdentity(n) ==
  \A p \in LineStart(n)..LineEnd(n) :
    file_content[p] = "," \/ IsWhitespace(file_content[p])

\* line n holds nothing but separators
HasSeparatorsOnly(n) ==
  \A p \in LineStart(n)..LineEnd(n) : file_content[p] = ","

\* ------------------------------------------------------------------------
\* C14: parse_csv_file returns one row per input line, and a line with no
\* identities yields an empty row at the position of the line.
\* ------------------------------------------------------------------------
C14_RowPositionsKept ==
  io_pc = "parsed" =>
    /\ Len(result) = LineCount
    /\ \A n \in 1..LineCount : HasNoIdentity(n) => result[n] = <<>>

\* ------------------------------------------------------------------------
\* C15: every identity parse_csv_file returns is non-empty and has no
\* whitespace at either end.
\* ------------------------------------------------------------------------
C15_IdentitiesTrimmedNonEmpty ==
  \A r \in 1..Len(result) :
    \A n \in 1..Len(result[r]) :
      LET identity == result[r][n] IN
        /\ identity # <<>>
        /\ ~IsWhitespace(identity[1])
        /\ ~IsWhitespace(identity[Len(identity)])

\* ------------------------------------------------------------------------
\* C16: a roster file and the same file with one newline added at its end
\* parse to the same rows.  This holds for a file that is not empty and does
\* not end with a newline or a carriage return.
\* ------------------------------------------------------------------------
WithNewline == ParseCsvFile(file_content \o <<"\n">>)

EndsUnterminated ==
  /\ file_content # <<>>
  /\ file_content[Len(file_content)] \notin {"\n", "\r"}

NonWhitespace(c) == c \notin {" ", "\n", "\r", "\t"}

C18_AllWhitespaceRemoved ==
  io_pc = "token_read" =>
    /\ token = SelectSeq(file_content, NonWhitespace)
    /\ \A n \in 1..Len(token) : NonWhitespace(token[n])

\* the file without its leading and trailing whitespace
InkAt == {n \in 1..Len(file_content) : NonWhitespace(file_content[n])}

Surrounded ==
  IF InkAt = {} THEN <<>>
  ELSE SubSeq(file_content,
              CHOOSE n \in InkAt : \A m \in InkAt : n <= m,
              CHOOSE n \in InkAt : \A m \in InkAt : m <= n)

\* C18 as stated: only the surrounding whitespace is removed
C18_OnlySurroundingRemoved ==
  io_pc = "token_read" => token = Surrounded

\* a token file with whitespace inside and at an end has been read
C18_Witness ==
  /\ io_pc = "token_read"
  /\ token # <<>>
  /\ Surrounded # file_content
  /\ \E n \in 1..Len(Surrounded) : ~NonWhitespace(Surrounded[n])

====
